---- MODULE Spec2Model ----
(***************************************************************************)
(* Version reconstruction from checkpoints and incremental edits           *)
(* (edit_data/edits.py, edit_data/zip_edits.py, edit_data/types.py,        *)
(* edit_data/fake_it.py).                                                  *)
(*                                                                         *)
(* A text (Python str) is a sequence of one-character strings.  A datetime *)
(* is an integer number of clock ticks; TicksPerMilli ticks make one       *)
(* millisecond, the unit of the persisted records.  A path is the sequence *)
(* of its parts.  A checkpoint is a nested record, compared structurally   *)
(* as the dataclasses / pydantic models compare.                           *)
(***************************************************************************)
EXTENDS Integers, Sequences, FiniteSets, TLC

VARIABLES
    workspace_history,  \* dict[Path, FileChangeHistory]: the workspace queried
    op,                 \* the function called last ("init": none yet)
    args,               \* its arguments
    result,             \* what it returned or raised
    trace,              \* the locals of the call the claims speak of
    project,            \* the files under the root get_linear_workspace_history walks
    metadata,           \* the metadata of the WorkspaceChangeHistory built
    archive             \* the entries of the written changes.zip

vars == <<workspace_history, op, args, result, trace, project, metadata, archive>>

(***************************************************************************)
(* Bounds of the model.                                                    *)
(***************************************************************************)
MaxEdits == 3
MaxWsEdits == 1
MaxTime == 2
MaxLen == 2
MaxChanges == 2
MaxChain == 3
TicksPerMilli == 2

Chars == {"a", "b"}

Min(a, b) == IF a < b THEN a ELSE b
Max(a, b) == IF a > b THEN a ELSE b

(***************************************************************************)
(* Python slicing of a str: base[:k] and base[k:].  An index past the end  *)
(* is clamped to len(base); a negative index counts from the end and is    *)
(* clamped at 0.                                                           *)
(***************************************************************************)
\* PyIndex taking a negative index for 0 instead of counting from the end.
PyIndexFromStart(n, k) == IF k >= 0 THEN Min(k, n) ELSE 0

PyIndex(n, k) == IF k >= 0 THEN Min(k, n) ELSE Max(n + k, 0)
PySliceTo(base, k) == SubSeq(base, 1, PyIndex(Len(base), k))
PySliceFrom(base, k) == SubSeq(base, PyIndex(Len(base), k) + 1, Len(base))

(***************************************************************************)
(* Checkpoints (types.py / edits.py).                                      *)
(***************************************************************************)
NewConcreteCheckpoint(contents, mtime) ==
    [type |-> "new", contents |-> contents, mtime |-> mtime]
SameConcreteCheckpoint(prev, mtime) ==
    [type |-> "same", prev |-> prev, mtime |-> mtime]

Position(line, character) == [line |-> line, character |-> character]
Range(start, end) == [start |-> start, end |-> end]

ContentChange(range, text, rangeOffset, rangeLength) ==
    [range |-> range, text |-> text, rangeOffset |-> rangeOffset, rangeLength |-> rangeLength]

\* A change of a buffer of one line: its range is the line/column view of the
\* offsets.
ChangeAt(text, rangeOffset, rangeLength) ==
    ContentChange(Range(Position(0, rangeOffset), Position(0, rangeOffset + rangeLength)),
                  text, rangeOffset, rangeLength)

Edit(file, time, base_change, changes) ==
    [file |-> file, time |-> time, base_change |-> base_change, changes |-> changes]

FileChangeHistory(path, edits_history, last_checkpoint) ==
    [path |-> path, edits_history |-> edits_history, last_checkpoint |-> last_checkpoint]

\* get_last_new_concrete_checkpoint following one prev link only.
get_last_new_concrete_checkpoint_one_hop(checkpoint) ==
    IF checkpoint.type = "new" THEN checkpoint ELSE checkpoint.prev

RECURSIVE get_last_new_concrete_checkpoint(_)
get_last_new_concrete_checkpoint(checkpoint) ==
    IF checkpoint.type = "new"
    THEN checkpoint
    ELSE get_last_new_concrete_checkpoint(checkpoint.prev)

(***************************************************************************)
(* Patch application.                                                      *)
(***************************************************************************)
apply_change(base, change) ==
    PySliceTo(base, change.rangeOffset)
        \o change.text
        \o PySliceFrom(base, change.rangeOffset + change.rangeLength)

RECURSIVE FoldChanges(_, _, _)
FoldChanges(curbase, changes, i) ==
    IF i > Len(changes)
    THEN curbase
    ELSE FoldChanges(apply_change(curbase, changes[i]), changes, i + 1)

\* apply_edit going through the changes from the last to the first.
apply_edit_backwards(base, edit) ==
    FoldChanges(base, [i \in 1..Len(edit.changes) |->
                          edit.changes[Len(edit.changes) + 1 - i]], 1)

apply_edit(base, edit) == FoldChanges(base, edit.changes, 1)

RECURSIVE FoldEdits(_, _, _)
FoldEdits(cur_base, edits, i) ==
    IF i > Len(edits)
    THEN cur_base
    ELSE FoldEdits(apply_edit(cur_base, edits[i]), edits, i + 1)

get_file_contents(base, edits) == FoldEdits(base, edits, 1)

(***************************************************************************)
(* get_version_at_time: the scan for the edits up to `time`, the backward  *)
(* walk over the edits sharing the last edit's base checkpoint, and the    *)
(* replay.                                                                 *)
(***************************************************************************)
RECURSIVE ScanEdits(_, _, _)
ScanEdits(edits_history, time, i) ==
    IF i > Len(edits_history) \/ edits_history[i].time > time
    THEN <<>>
    ELSE <<edits_history[i]>> \o ScanEdits(edits_history, time, i + 1)

\* EditSequence with the scan stopping at an edit made at the query time.
EditSequenceBefore(edits_history, time) ==
    SelectSeq(edits_history, LAMBDA e : e.time < time)

EditSequence(edits_history, time) == ScanEdits(edits_history, time, 1)

Reversed(s) == [i \in 1..Len(s) |-> s[Len(s) + 1 - i]]

\* WalkChain telling base checkpoints apart by the text they resolve to.
RECURSIVE WalkChainByText(_, _, _)
WalkChainByText(reversed_edits, last_edit, i) ==
    IF i > Len(reversed_edits)
       \/ get_last_new_concrete_checkpoint(reversed_edits[i].base_change).contents
              # get_last_new_concrete_checkpoint(last_edit.base_change).contents
    THEN <<>>
    ELSE <<reversed_edits[i]>> \o WalkChainByText(reversed_edits, last_edit, i + 1)

RECURSIVE WalkChain(_, _, _)
WalkChain(reversed_edits, last_edit, i) ==
    IF i > Len(reversed_edits)
       \/ reversed_edits[i].base_change # last_edit.base_change
    THEN <<>>
    ELSE <<reversed_edits[i]>> \o WalkChain(reversed_edits, last_edit, i + 1)

\* LastEditChain without the break: every selected edit on the last edit's
\* checkpoint, not only the trailing ones.
LastEditChainAnywhere(edit_sequence) ==
    SelectSeq(edit_sequence,
              LAMBDA e : e.base_change = edit_sequence[Len(edit_sequence)].base_change)

LastEditChain(edit_sequence) ==
    LET last_edit == edit_sequence[Len(edit_sequence)]
        reversed_edits == Reversed(edit_sequence)
    IN  Reversed(WalkChain(reversed_edits, last_edit, 1))

Raised(error) == [error |-> error, value |-> <<>>]
Returned(value) == [error |-> "", value |-> value]

\* VersionTrace falling back on the checkpoint of the first edit instead of
\* the last checkpoint.
VersionTraceFirstBase(file, history, time) ==
    LET file_history == history[file]
        edit_sequence == EditSequence(file_history.edits_history, time)
        first == IF file_history.edits_history = <<>>
                 THEN file_history.last_checkpoint
                 ELSE file_history.edits_history[1].base_change
    IN  IF Len(edit_sequence) = 0
        THEN [edit_sequence |-> edit_sequence,
              last_edit_chain |-> <<>>,
              base |-> <<get_last_new_concrete_checkpoint(first)>>]
        ELSE [edit_sequence |-> edit_sequence,
              last_edit_chain |-> LastEditChain(edit_sequence),
              base |-> <<get_last_new_concrete_checkpoint(
                            edit_sequence[Len(edit_sequence)].base_change)>>]

\* The locals of one call: the edits selected, the chain replayed and the
\* checkpoint whose contents the replay starts from.
VersionTrace(file, history, time) ==
    LET file_history == history[file]
        edit_sequence == EditSequence(file_history.edits_history, time)
    IN  IF Len(edit_sequence) = 0
        THEN [edit_sequence |-> edit_sequence,
              last_edit_chain |-> <<>>,
              base |-> <<get_last_new_concrete_checkpoint(file_history.last_checkpoint)>>]
        ELSE [edit_sequence |-> edit_sequence,
              last_edit_chain |-> LastEditChain(edit_sequence),
              base |-> <<get_last_new_concrete_checkpoint(
                            edit_sequence[Len(edit_sequence)].base_change)>>]

\* get_version_at_time answering a file it has no history for with the empty
\* text, as a lookup with a default would.
get_version_at_time_default(file, history, time) ==
    IF file \notin DOMAIN history
    THEN Returned(<<>>)
    ELSE LET t == VersionTrace(file, history, time)
         IN  Returned(get_file_contents(t.base[1].contents, t.last_edit_chain))

get_version_at_time(file, history, time) ==
    IF file \notin DOMAIN history
    THEN Raised("AssertionError")
    ELSE LET t == VersionTrace(file, history, time)
         IN  Returned(get_file_contents(t.base[1].contents, t.last_edit_chain))

(***************************************************************************)
(* get_version_at_edit: the version of every file of the workspace at the  *)
(* time of the edit_idx-th edit of `file`.  A negative edit_idx passes the *)
(* assertion and indexes the list from its end.                            *)
(***************************************************************************)
PyListIndex(n, idx) == IF idx >= 0 THEN idx + 1 ELSE n + idx + 1

\* get_version_at_edit returning the queried file alone.
get_version_at_edit_one_file(file, history, edit_idx) ==
    IF file \notin DOMAIN history
    THEN Raised("AssertionError")
    ELSE LET edits_history == history[file].edits_history
             n == Len(edits_history)
         IN  IF ~(edit_idx < n)
             THEN Raised("AssertionError")
             ELSE IF PyListIndex(n, edit_idx) < 1
             THEN Raised("IndexError")
             ELSE LET target_edit == edits_history[PyListIndex(n, edit_idx)]
                  IN  Returned([f \in {file} |->
                          get_version_at_time(f, history, target_edit.time).value])

\* get_version_at_edit asserting edit_idx <= len(edits_history): the index
\* len(edits_history) reaches the list, which raises IndexError.
get_version_at_edit_off_by_one(file, history, edit_idx) ==
    IF file \notin DOMAIN history
    THEN Raised("AssertionError")
    ELSE LET edits_history == history[file].edits_history
             n == Len(edits_history)
         IN  IF ~(edit_idx <= n)
             THEN Raised("AssertionError")
             ELSE IF PyListIndex(n, edit_idx) < 1 \/ PyListIndex(n, edit_idx) > n
             THEN Raised("IndexError")
             ELSE LET target_edit == edits_history[PyListIndex(n, edit_idx)]
                  IN  Returned([f \in DOMAIN history |->
                          get_version_at_time(f, history, target_edit.time).value])

get_version_at_edit(file, history, edit_idx) ==
    IF file \notin DOMAIN history
    THEN Raised("AssertionError")
    ELSE LET edits_history == history[file].edits_history
             n == Len(edits_history)
         IN  IF ~(edit_idx < n)
             THEN Raised("AssertionError")
             ELSE IF PyListIndex(n, edit_idx) < 1
             THEN Raised("IndexError")
             ELSE LET target_edit == edits_history[PyListIndex(n, edit_idx)]
                  IN  Returned([f \in DOMAIN history |->
                          get_version_at_time(f, history, target_edit.time).value])

(***************************************************************************)
(* The workspaces the queries are checked on.  The checkpoints of a file:  *)
(* two snapshots of different contents and an alias of the first, which    *)
(* shares its text but not its identity, and the mtime of the second.      *)
(* Every edit inserts one character at the front of the buffer, so that    *)
(* the text tells which edits were replayed and in which order.  A history *)
(* is sorted ascending by time, as load_file_history leaves it.            *)
(***************************************************************************)
F1 == <<"f">>
F2 == <<"d", "g">>
Untracked == <<"u">>

Snapshot1 == NewConcreteCheckpoint(<<>>, 0)
Snapshot2 == NewConcreteCheckpoint(<<"b", "a">>, 1)
Alias1 == SameConcreteCheckpoint(Snapshot1, 1)

\* The only checkpoint of a file first recorded at the latest time.
Snapshot3 == NewConcreteCheckpoint(<<"b">>, MaxTime)

Snapshots == {Snapshot1, Snapshot2}
Checkpoints == Snapshots \cup {Alias1}

Insertions(chars) == {<<ChangeAt(<<c>>, 0, 0)>> : c \in chars}

EditsOf(file, checkpoints, chars) ==
    {Edit(file, t, cp, ch) : t \in 1..MaxTime, cp \in checkpoints, ch \in Insertions(chars)}

IsSorted(edits) == \A i \in 1..(Len(edits) - 1) : edits[i].time <= edits[i + 1].time

Histories(file, checkpoints, chars, maxEdits) ==
    {FileChangeHistory(file, edits, last) :
        edits \in {e \in UNION {[1..n -> EditsOf(file, checkpoints, chars)] : n \in 0..maxEdits} :
                      IsSorted(e)},
        last \in checkpoints}

\* One file with a long history over all the checkpoints, or two files with
\* short histories over the snapshots, or a file with a short history and a
\* file recorded late and never edited.
Workspaces ==
    {[f \in {F1} |-> h] : h \in Histories(F1, Checkpoints, Chars, MaxEdits)}
    \cup {[f \in {F1, F2} |-> IF f = F1 THEN h1 ELSE h2] :
            h1 \in Histories(F1, Snapshots, {"a"}, MaxWsEdits),
            h2 \in Histories(F2, Snapshots, {"a"}, MaxWsEdits)}
    \cup {[f \in {F1, F2} |-> IF f = F1 THEN h1 ELSE FileChangeHistory(F2, <<>>, Snapshot3)] :
            h1 \in Histories(F1, Snapshots, {"a"}, MaxWsEdits)}

Init ==
    /\ workspace_history \in Workspaces
    /\ op = "init"
    /\ args = <<>>
    /\ result = Returned(<<>>)
    /\ trace = <<>>
    /\ project = <<>>
    /\ metadata = <<>>
    /\ archive = <<>>

\* The functions are pure and the workspace is immutable once built: a
\* behaviour is one call on a workspace that is ready.
Ready ==
    \/ op \in {"init", "get_linear_workspace_history"}
    \/ (op = "load_workspace_history_from_dir" /\ result.error = "")

QueryFiles == DOMAIN workspace_history \cup {Untracked}

\* The indexes tried: one below 0, the valid ones and the first one too large.
QueryIndexes(file) ==
    (0 - 1)..(IF file \in DOMAIN workspace_history
              THEN Len(workspace_history[file].edits_history)
              ELSE 0)

\* trace: the locals of the call, when the file is tracked.
GetVersionAtTime ==
    /\ Ready
    /\ \E file \in QueryFiles, time \in 0..MaxTime :
        /\ op' = "get_version_at_time"
        /\ args' = [file |-> file, time |-> time]
        /\ result' = get_version_at_time(file, workspace_history, time)
        /\ trace' = [f \in {file} \cap DOMAIN workspace_history |->
                        VersionTrace(f, workspace_history, time)]
    /\ UNCHANGED <<workspace_history, project, metadata, archive>>

\* trace: the locals of the call of get_version_at_time for each file.
GetVersionAtEdit ==
    /\ Ready
    /\ \E file \in QueryFiles : \E edit_idx \in QueryIndexes(file) :
        /\ op' = "get_version_at_edit"
        /\ args' = [file |-> file, edit_idx |-> edit_idx]
        /\ result' = get_version_at_edit(file, workspace_history, edit_idx)
        /\ trace' = IF result'.error # ""
                    THEN <<>>
                    ELSE LET edits_history == workspace_history[file].edits_history
                             target_edit ==
                                 edits_history[PyListIndex(Len(edits_history), edit_idx)]
                         IN  [f \in DOMAIN workspace_history |->
                                 VersionTrace(f, workspace_history, target_edit.time)]
    /\ UNCHANGED <<workspace_history, project, metadata, archive>>

Next ==
    \/ GetVersionAtTime
    \/ GetVersionAtEdit

Spec == Init /\ [][Next]_vars

(***************************************************************************)
(* What the claims compare the calls with, stated without the loops of the *)
(* code.                                                                   *)
(***************************************************************************)
Called(name) == op = name /\ result.error = ""

\* The edits of a history at or before a time, wherever they stand.
EditsUpTo(edits_history, time) == SelectSeq(edits_history, LAMBDA e : e.time <= time)

\* The longest suffix of a non-empty sequence of edits whose edits all have
\* the base checkpoint of its last edit.
TrailingRun(edits) ==
    LET n == Len(edits)
        SameBaseFrom(k) == \A j \in k..n : edits[j].base_change = edits[n].base_change
        first == CHOOSE k \in 1..n : SameBaseFrom(k) /\ \A j \in 1..(k - 1) : ~SameBaseFrom(j)
    IN  SubSeq(edits, first, n)

\* The text of a file after the edits given, the last of which is the newest:
\* the run of the last edit replayed onto the snapshot of its checkpoint.
TextAfter(file_history, edits) ==
    IF edits = <<>>
    THEN get_last_new_concrete_checkpoint(file_history.last_checkpoint).contents
    ELSE get_file_contents(
             get_last_new_concrete_checkpoint(edits[Len(edits)].base_change).contents,
             TrailingRun(edits))

QueriedHistory == workspace_history[args.file]

\* C1: with at least one edit at or before the query time, get_version_at_time
\* replays exactly the longest contiguous trailing run of the selected prefix
\* that shares the base checkpoint of its last edit, in chronological order,
\* onto the resolved text of that checkpoint, and no earlier edit.
C1_TrailingRunReplayed ==
    (Called("get_version_at_time") /\ trace[args.file].edit_sequence # <<>>) =>
        LET t == trace[args.file]
            last_edit == t.edit_sequence[Len(t.edit_sequence)]
        IN  /\ t.last_edit_chain = TrailingRun(t.edit_sequence)
            /\ t.base = <<get_last_new_concrete_checkpoint(last_edit.base_change)>>
            /\ result.value = get_file_contents(t.base[1].contents,
                                                TrailingRun(t.edit_sequence))

\* Two edits on one checkpoint replayed, an edit on another checkpoint before
\* them left out.
C1_Witness ==
    /\ Called("get_version_at_time")
    /\ Len(trace[args.file].edit_sequence) = 3
    /\ Len(trace[args.file].last_edit_chain) = 2
    /\ trace[args.file].edit_sequence[1].base_change
           # trace[args.file].edit_sequence[3].base_change

\* C3: on a history sorted by time, the edits get_version_at_time considers
\* are exactly the edits with time <= t, one with time = t included, and the
\* result is the same as on the history without the later edits.
C3_PrefixIsEditsUpToTime ==
    Called("get_version_at_time") =>
        /\ trace[args.file].edit_sequence
               = EditsUpTo(QueriedHistory.edits_history, args.time)
        /\ result.value =
               get_version_at_time(args.file,
                   [workspace_history EXCEPT ![args.file].edits_history =
                        EditsUpTo(QueriedHistory.edits_history, args.time)],
                   args.time).value

\* An edit made at the query time is selected and a later one is not.
C3_Witness ==
    /\ Called("get_version_at_time")
    /\ trace[args.file].edit_sequence # <<>>
    /\ trace[args.file].edit_sequence[Len(trace[args.file].edit_sequence)].time = args.time
    /\ Len(QueriedHistory.edits_history) > Len(trace[args.file].edit_sequence)

NoEditUpTo(file_history, time) ==
    \A i \in 1..Len(file_history.edits_history) : file_history.edits_history[i].time > time

\* C4: when no edit of the file has time <= t, get_version_at_time returns the
\* text of the snapshot file.last_checkpoint resolves to, the same for every
\* such t.
C4_FallbackIsLastCheckpoint ==
    (Called("get_version_at_time") /\ NoEditUpTo(QueriedHistory, args.time)) =>
        /\ result.value
               = get_last_new_concrete_checkpoint(QueriedHistory.last_checkpoint).contents
        /\ \A t \in 0..MaxTime :
               NoEditUpTo(QueriedHistory, t) =>
                   get_version_at_time(args.file, workspace_history, t) = result

\* The file has edits, all later than the query, and its last checkpoint is
\* not the checkpoint of its first edit nor has its text.
C4_Witness ==
    /\ Called("get_version_at_time")
    /\ QueriedHistory.edits_history # <<>>
    /\ NoEditUpTo(QueriedHistory, args.time)
    /\ get_last_new_concrete_checkpoint(QueriedHistory.edits_history[1].base_change).contents
           # result.value

ValidIndex == args.edit_idx >= 0 /\ args.edit_idx < Len(QueriedHistory.edits_history)

TargetTime == QueriedHistory.edits_history[args.edit_idx + 1].time

\* C5: for a valid index, get_version_at_edit returns a mapping over exactly
\* the files of the workspace, each to its version at the time of the
\* index-th edit of the queried file.
C5_AllFilesAtTargetTime ==
    (op = "get_version_at_edit" /\ args.file \in DOMAIN workspace_history /\ ValidIndex) =>
        /\ result.error = ""
        /\ DOMAIN result.value = DOMAIN workspace_history
        /\ \A f \in DOMAIN workspace_history :
               result.value[f] =
                   TextAfter(workspace_history[f],
                             EditsUpTo(workspace_history[f].edits_history, TargetTime))

\* The other file of the workspace has an edit at or before the target time
\* and is returned with that edit replayed.
C5_Witness ==
    /\ Called("get_version_at_edit")
    /\ args.file = F1
    /\ F2 \in DOMAIN workspace_history
    /\ ValidIndex
    /\ EditsUpTo(workspace_history[F2].edits_history, TargetTime) # <<>>
    /\ result.value[F2]
           # get_last_new_concrete_checkpoint(workspace_history[F2].last_checkpoint).contents

\* C6: the text get_version_at_edit returns for the queried file is the file
\* right after its N-th edit: edit N replayed and no edit after it, whatever
\* the timestamps.
C6_StateAfterNthEdit ==
    (Called("get_version_at_edit") /\ ValidIndex) =>
        result.value[args.file] =
            TextAfter(QueriedHistory,
                      SubSeq(QueriedHistory.edits_history, 1, args.edit_idx + 1))

\* C11: get_version_at_edit with a tracked file and an index >=
\* len(edits_history) fails with the out-of-range assertion and returns no
\* mapping, on a file without edits for every such index.
C11_IndexTooLargeFails ==
    (op = "get_version_at_edit"
     /\ args.file \in DOMAIN workspace_history
     /\ args.edit_idx >= Len(QueriedHistory.edits_history)) =>
        /\ result = Raised("AssertionError")
        /\ trace = <<>>

\* The first index too large on a file that has edits.
C11_Witness ==
    /\ op = "get_version_at_edit"
    /\ args.file \in DOMAIN workspace_history
    /\ QueriedHistory.edits_history # <<>>
    /\ args.edit_idx = Len(QueriedHistory.edits_history)
    /\ result.error = "AssertionError"

\* C12: get_version_at_time and get_version_at_edit with a file that is no
\* key of the workspace history fail with the not-found assertion and return
\* no text or mapping, before any edit is scanned or replayed.
C12_UntrackedFileFails ==
    (op \in {"get_version_at_time", "get_version_at_edit"}
     /\ args.file \notin DOMAIN workspace_history) =>
        /\ result = Raised("AssertionError")
        /\ trace = <<>>

\* An untracked file queried at a time at which the tracked file has edits.
C12_Witness ==
    /\ op = "get_version_at_time"
    /\ args.file = Untracked
    /\ \E i \in 1..Len(workspace_history[F1].edits_history) :
           workspace_history[F1].edits_history[i].time <= args.time
    /\ result.error = "AssertionError"

\* C18: the text get_version_at_edit returns for a file is made of data not
\* later than the time T of the indexed edit: the snapshot it starts from has
\* mtime <= T and every edit replayed has time <= T, for a file without an
\* edit at or before T too.
C18_NothingLaterThanTarget ==
    (Called("get_version_at_edit") /\ ValidIndex) =>
        \A f \in DOMAIN workspace_history :
            /\ trace[f].base[1].mtime <= TargetTime
            /\ \A i \in 1..Len(trace[f].last_edit_chain) :
                   trace[f].last_edit_chain[i].time <= TargetTime

\* C19: a negative index is rejected as an index >= len(edits_history) is,
\* and selects no edit counted from the end of the history.
C19_NegativeIndexFails ==
    (op = "get_version_at_edit"
     /\ args.file \in DOMAIN workspace_history
     /\ args.edit_idx < 0) =>
        result.error # ""

(***************************************************************************)
(* fake_it.py: the linear history of a file, one edit per character of its *)
(* contents, and the workspace of the files under a root.                  *)
(***************************************************************************)
StartTime == 0
DeltaMilis == 100

\* datetime + timedelta(milliseconds=ms)
PlusMillis(time, ms) == time + ms * TicksPerMilli

Newline == "\n"

\* cur_line and cur_col when the character of 0-based index i is reached.
NewlinesBefore(contents, i) == {j \in 1..i : contents[j] = Newline}
CurLine(contents, i) == Cardinality(NewlinesBefore(contents, i))
CurCol(contents, i) ==
    IF NewlinesBefore(contents, i) = {}
    THEN i
    ELSE i - (CHOOSE j \in NewlinesBefore(contents, i) :
                  \A k \in NewlinesBefore(contents, i) : k <= j)

\* get_linear_file_history stamping every edit with the start time.
get_linear_file_history_same_time(file, contents, start_time, delta_milis) ==
    LET concrete_orig == NewConcreteCheckpoint(<<>>, start_time)
    IN  FileChangeHistory(
            file,
            [n \in 1..Len(contents) |->
                Edit(file, start_time, concrete_orig,
                     <<ContentChange(
                           Range(Position(CurLine(contents, n - 1), CurCol(contents, n - 1)),
                                 Position(CurLine(contents, n - 1), CurCol(contents, n - 1) + 1)),
                           <<contents[n]>>, n - 1, 1)>>)],
            concrete_orig)

get_linear_file_history(file, contents, start_time, delta_milis) ==
    LET concrete_orig == NewConcreteCheckpoint(<<>>, start_time)
    IN  FileChangeHistory(
            file,
            [n \in 1..Len(contents) |->
                Edit(file, PlusMillis(start_time, n * delta_milis), concrete_orig,
                     <<ContentChange(
                           Range(Position(CurLine(contents, n - 1), CurCol(contents, n - 1)),
                                 Position(CurLine(contents, n - 1), CurCol(contents, n - 1) + 1)),
                           <<contents[n]>>, n - 1, 1)>>)],
            concrete_orig)

LocalChangeMetadata(hostname, os_username, workspace_name) ==
    [type |-> "local", hostname |-> hostname, os_username |-> os_username,
     workspace_name |-> workspace_name]

get_local_state == LocalChangeMetadata("hostname", "login", "test-workspace")

\* The files of a WorkspaceChangeHistory, sorted and unique by path, as the
\* dict get_dict() makes of them.
get_linear_workspace_history(root) ==
    [metadata |-> get_local_state,
     files |-> [file \in DOMAIN root |->
                   get_linear_file_history(file, root[file], StartTime, DeltaMilis)]]

(***************************************************************************)
(* types.py: the archive write_ts_workspace_history writes.  An entry of   *)
(* the archive is a path and the JSON value of the file.                   *)
(***************************************************************************)
CONCRETE_NAME == "concrete-history"
EDITS_NAME == "edits-history"
METADATA_NAME == "metadata.json"

datetime_from_milis(ms) == ms * TicksPerMilli
datetime_to_milis(dt) == dt \div TicksPerMilli

checkpoint_to_ts_dict(checkpoint) ==
    IF checkpoint.type = "new"
    THEN [type |-> "new", contents |-> checkpoint.contents,
          mtime |-> datetime_to_milis(checkpoint.mtime)]
    ELSE [type |-> "same", prevMtime |-> datetime_to_milis(checkpoint.prev.mtime),
          mtime |-> datetime_to_milis(checkpoint.mtime)]

edit_to_ts_dict(edit) ==
    [file |-> edit.file, time |-> datetime_to_milis(edit.time),
     baseTime |-> datetime_to_milis(edit.base_change.mtime),
     changes |-> [i \in 1..Len(edit.changes) |->
                     [range |-> edit.changes[i].range, text |-> edit.changes[i].text,
                      rangeOffset |-> edit.changes[i].rangeOffset,
                      rangeLength |-> edit.changes[i].rangeLength]]]

metadata_to_ts_dict(meta) ==
    [type |-> meta.type, hostname |-> meta.hostname, osUsername |-> meta.os_username,
     workspaceName |-> meta.workspace_name]

\* __gather_concrete_checkpoints: for each mtime, the base checkpoint of the
\* first edit that has it; the dict keeps the order of these first edits.
FirstEditOn(edits_history, mtime) ==
    CHOOSE i \in 1..Len(edits_history) :
        /\ edits_history[i].base_change.mtime = mtime
        /\ \A j \in 1..(i - 1) : edits_history[j].base_change.mtime # mtime

GatheredMtimes(edits_history) ==
    {edits_history[i].base_change.mtime : i \in 1..Len(edits_history)}

\* write_concrete_checkpoints: one file per gathered checkpoint, named by its
\* mtime in milliseconds; a later file of the same name replaces an earlier.
CheckpointFiles(file_history) ==
    LET edits_history == file_history.edits_history
        Name(mtime) == ToString(datetime_to_milis(mtime))
        Written(name) == {m \in GatheredMtimes(edits_history) : Name(m) = name}
        LastWritten(name) ==
            CHOOSE m \in Written(name) :
                \A k \in Written(name) :
                    FirstEditOn(edits_history, k) <= FirstEditOn(edits_history, m)
    IN  [p \in {file_history.path \o <<CONCRETE_NAME, Name(m)>> :
                    m \in GatheredMtimes(edits_history)} |->
            checkpoint_to_ts_dict(
                edits_history[FirstEditOn(edits_history, LastWritten(p[Len(p)]))].base_change)]

\* write_edits: one file per edit, named by its time in milliseconds.
EditFiles(file_history) ==
    LET edits_history == file_history.edits_history
        Name(i) == ToString(datetime_to_milis(edits_history[i].time))
        LastWritten(name) ==
            CHOOSE i \in 1..Len(edits_history) :
                /\ Name(i) = name
                /\ \A j \in (i + 1)..Len(edits_history) : Name(j) # name
    IN  [p \in {file_history.path \o <<EDITS_NAME, Name(i)>> : i \in 1..Len(edits_history)} |->
            edit_to_ts_dict(edits_history[LastWritten(p[Len(p)])])]

\* The union of dicts with disjoint keys.
Merge(f, g) == [p \in DOMAIN f \cup DOMAIN g |-> IF p \in DOMAIN f THEN f[p] ELSE g[p]]

RECURSIVE MergeAll(_)
MergeAll(dicts) ==
    IF dicts = {}
    THEN <<>>
    ELSE LET d == CHOOSE x \in dicts : TRUE
         IN  Merge(d, MergeAll(dicts \ {d}))

\* write_ts_workspace_history: metadata.json and the files of every history;
\* the archive takes the files under the temporary directory, so a directory
\* without files leaves no entry.
write_ts_workspace_history(meta, files) ==
    MergeAll({[p \in {<<METADATA_NAME>>} |-> metadata_to_ts_dict(meta)]}
             \cup {CheckpointFiles(files[f]) : f \in DOMAIN files}
             \cup {EditFiles(files[f]) : f \in DOMAIN files})

(***************************************************************************)
(* The helpers called on their own: apply_change, apply_edit,              *)
(* get_file_contents and get_last_new_concrete_checkpoint, on texts of at  *)
(* most MaxLen characters, changes that insert or replace at offsets from  *)
(* one before the buffer to one past its longest length, and alias chains  *)
(* of at most MaxChain links.                                              *)
(***************************************************************************)
Texts(n) == UNION {[1..k -> Chars] : k \in 0..n}

RangeLengths == {0, 1}

Changes ==
    {ChangeAt(text, rangeOffset, rangeLength) :
        text \in Texts(1), rangeOffset \in (0 - 1)..(MaxLen + 1), rangeLength \in RangeLengths}

ChangeLists == UNION {[1..n -> Changes] : n \in 0..MaxChanges}

\* The edits replayed by get_file_contents: no change, an insertion at the
\* front or the removal of the first character.
ReplayChangeLists == {<<>>, <<ChangeAt(<<>>, 0, 1)>>} \cup Insertions(Chars)

ReplayEditLists ==
    UNION {[1..n -> {Edit(F1, 1, Snapshot1, ch) : ch \in ReplayChangeLists}] : n \in 0..MaxEdits}

\* A snapshot under the aliases of the mtimes given, the innermost first.
RECURSIVE AliasChain(_, _)
AliasChain(snapshot, mtimes) ==
    IF mtimes = <<>>
    THEN snapshot
    ELSE SameConcreteCheckpoint(AliasChain(snapshot, SubSeq(mtimes, 1, Len(mtimes) - 1)),
                                mtimes[Len(mtimes)])

\* prev.mtime < mtime along the chain.
ChainMtimes(snapshot) ==
    {ms \in UNION {[1..n -> (snapshot.mtime + 1)..MaxChain] : n \in 0..MaxChain} :
        \A i \in 1..(Len(ms) - 1) : ms[i] < ms[i + 1]}

InitHelpers ==
    /\ workspace_history = <<>>
    /\ op = "init"
    /\ args = <<>>
    /\ result = Returned(<<>>)
    /\ trace = <<>>
    /\ project = <<>>
    /\ metadata = <<>>
    /\ archive = <<>>

ApplyChange ==
    /\ op = "init"
    /\ \E base \in Texts(MaxLen), change \in Changes :
        /\ op' = "apply_change"
        /\ args' = [base |-> base, change |-> change]
        /\ result' = Returned(apply_change(base, change))
    /\ UNCHANGED <<workspace_history, trace, project, metadata, archive>>

\* trace: curbase after each change of the edit.
ApplyEdit ==
    /\ op = "init"
    /\ \E base \in [1..MaxLen -> Chars], changes \in ChangeLists :
        LET edit == Edit(F1, 1, Snapshot1, changes)
        IN  /\ op' = "apply_edit"
            /\ args' = [base |-> base, edit |-> edit]
            /\ result' = Returned(apply_edit(base, edit))
            /\ trace' = [i \in 1..Len(changes) |->
                            apply_edit(base, [edit EXCEPT !.changes = SubSeq(changes, 1, i)])]
    /\ UNCHANGED <<workspace_history, project, metadata, archive>>

\* trace: cur_base after each edit.
GetFileContents ==
    /\ op = "init"
    /\ \E base \in Texts(MaxLen), edits \in ReplayEditLists :
        /\ op' = "get_file_contents"
        /\ args' = [base |-> base, edits |-> edits]
        /\ result' = Returned(get_file_contents(base, edits))
        /\ trace' = [i \in 1..Len(edits) |-> get_file_contents(base, SubSeq(edits, 1, i))]
    /\ UNCHANGED <<workspace_history, project, metadata, archive>>

\* trace: the snapshot the argument was built on and the number of aliases
\* over it.
GetLastNewConcreteCheckpoint ==
    /\ op = "init"
    /\ \E contents \in Texts(1), mtime \in 0..MaxChain :
        LET snapshot == NewConcreteCheckpoint(contents, mtime)
        IN  \E mtimes \in ChainMtimes(snapshot) :
                /\ op' = "get_last_new_concrete_checkpoint"
                /\ args' = [checkpoint |-> AliasChain(snapshot, mtimes)]
                /\ result' = Returned(get_last_new_concrete_checkpoint(
                                          AliasChain(snapshot, mtimes)))
                /\ trace' = [snapshot |-> snapshot, aliases |-> Len(mtimes)]
    /\ UNCHANGED <<workspace_history, project, metadata, archive>>

\* buffer[:k] keeps this many characters and buffer[k:] drops as many: k
\* itself within the buffer, the whole buffer beyond its end, and k counted
\* back from the end, but not before the start, when negative.
Kept(buffer, k) ==
    CASE k > Len(buffer) -> Len(buffer)
      [] k >= 0 /\ k <= Len(buffer) -> k
      [] k < 0 /\ Len(buffer) + k >= 0 -> Len(buffer) + k
      [] k < 0 /\ Len(buffer) + k < 0 -> 0

\* buffer[0:rangeOffset] + text + buffer[rangeOffset+rangeLength:], character
\* by character.
Splice(buffer, change) ==
    LET head == Kept(buffer, change.rangeOffset)
        drop == Kept(buffer, change.rangeOffset + change.rangeLength)
        n == head + Len(change.text) + (Len(buffer) - drop)
    IN  [i \in 1..n |->
            IF i <= head THEN buffer[i]
            ELSE IF i <= head + Len(change.text) THEN change.text[i - head]
            ELSE buffer[drop + (i - head - Len(change.text))]]

OutOfRange(buffer, change) ==
    \/ change.rangeOffset < 0
    \/ change.rangeOffset > Len(buffer)
    \/ change.rangeOffset + change.rangeLength < 0
    \/ change.rangeOffset + change.rangeLength > Len(buffer)

\* C7 as claimed: a change whose rangeOffset or rangeOffset+rangeLength lies
\* outside [0, len(buffer)] fails with a MalformedPatchError and yields no
\* buffer.
C7_OutOfRangeIsAnError ==
    (op = "apply_change" /\ OutOfRange(args.base, args.change)) =>
        result.error = "MalformedPatchError"

\* C7 as amended: such a change raises nothing; apply_change clamps the two
\* indexes as Python slices do and returns
\* buffer[:rangeOffset] + text + buffer[rangeOffset+rangeLength:].
C7_OutOfRangeIsClamped ==
    (op = "apply_change" /\ OutOfRange(args.base, args.change)) =>
        /\ result.error = ""
        /\ result.value = Splice(args.base, args.change)

\* A replacement that starts one before a buffer of two characters: the last
\* character is dropped from the head and the whole buffer follows the text.
C7_Witness ==
    /\ op = "apply_change"
    /\ args.change.rangeOffset < 0
    /\ args.change.rangeLength = 1
    /\ Len(args.base) = 2
    /\ result.value = <<args.base[1]>> \o args.change.text \o args.base

BufferAt(i) == IF i = 0 THEN args.base ELSE trace[i]

\* C8: apply_edit applies the changes in list order, each to the buffer the
\* earlier changes of the edit left, never reordered; get_file_contents does
\* the same with the edits; an edit without changes leaves the buffer as it is.
C8_ChangesInListOrder ==
    /\ op = "apply_edit" =>
        /\ Len(trace) = Len(args.edit.changes)
        /\ \A i \in 1..Len(trace) : trace[i] = Splice(BufferAt(i - 1), args.edit.changes[i])
        /\ result.value = BufferAt(Len(trace))
        /\ args.edit.changes = <<>> => result.value = args.base
    /\ op = "get_file_contents" =>
        /\ Len(trace) = Len(args.edits)
        /\ \A i \in 1..Len(trace) : trace[i] = apply_edit(BufferAt(i - 1), args.edits[i])
        /\ result.value = BufferAt(Len(trace))
        /\ \A i \in 1..Len(trace) : args.edits[i].changes = <<>> => trace[i] = BufferAt(i - 1)

\* Two changes whose order shows: the second has an offset beyond the first's
\* and applying them the other way round gives another text.
C8_Witness ==
    /\ op = "apply_edit"
    /\ Len(args.edit.changes) = 2
    /\ args.edit.changes[1].rangeOffset < args.edit.changes[2].rangeOffset
    /\ ~OutOfRange(args.base, args.edit.changes[1])
    /\ ~OutOfRange(trace[1], args.edit.changes[2])
    /\ result.value # Splice(Splice(args.base, args.edit.changes[2]), args.edit.changes[1])

\* C9: resolving an alias gives what resolving its prev gives, so a chain of
\* any number of aliases resolves to the snapshot at its end and its
\* contents; a snapshot resolves to itself.
C9_ChainResolvesToSnapshot ==
    op = "get_last_new_concrete_checkpoint" =>
        /\ result.value = trace.snapshot
        /\ result.value.type = "new"
        /\ result.value.contents = trace.snapshot.contents
        /\ args.checkpoint.type = "same" =>
               result.value = get_last_new_concrete_checkpoint(args.checkpoint.prev)
        /\ args.checkpoint.type = "new" => result.value = args.checkpoint

\* A chain of three aliases.
C9_Witness ==
    /\ op = "get_last_new_concrete_checkpoint"
    /\ trace.aliases = 3
    /\ args.checkpoint.prev.prev.prev = result.value

NextHelpers ==
    \/ ApplyChange
    \/ ApplyEdit
    \/ GetFileContents
    \/ GetLastNewConcreteCheckpoint

SpecHelpers == InitHelpers /\ [][NextHelpers]_vars

(***************************************************************************)
(* zip_edits.py: load_workspace_history on the entries of an archive.  The *)
(* file tree is read through the paths it was built from: a directory is a *)
(* proper prefix of an entry's path, a leaf is an entry.                   *)
(***************************************************************************)
\* is_num on the file names the archives of the model hold.
NumNames ==
    {ToString(n) : n \in 0..datetime_to_milis(PlusMillis(StartTime, (MaxLen + 1) * DeltaMilis))}
is_num(name) == name \in NumNames

Parent(path) == SubSeq(path, 1, Len(path) - 1)

\* path.parts[-2] of a path of one part is an IndexError.
get_important_paths(file_dict) ==
    LET considered == {path \in DOMAIN file_dict : ~(3 < Len(path))}
    IN  IF \E path \in considered : Len(path) < 2
        THEN Raised("IndexError")
        ELSE Returned({Parent(Parent(path)) :
                 path \in {q \in considered :
                              /\ ~(q[Len(q) - 1] # EDITS_NAME /\ q[Len(q) - 1] # CONCRETE_NAME)
                              /\ is_num(q[Len(q)])}})

\* FileNode.find / get_dir / children over the paths put into the tree.
IsDirectory(paths, dir) ==
    \E path \in paths : Len(path) > Len(dir) /\ SubSeq(path, 1, Len(dir)) = dir
ChildrenOf(paths, dir) ==
    {SubSeq(path, 1, Len(dir) + 1) :
        path \in {q \in paths : Len(q) > Len(dir) /\ SubSeq(q, 1, Len(dir)) = dir}}

\* raw_concrete_checkpoint_from_json
raw_concrete_checkpoint_from_json(json_data) ==
    IF json_data.type = "same"
    THEN [type |-> "same", prevMtime |-> datetime_from_milis(json_data.prevMtime),
          mtime |-> datetime_from_milis(json_data.mtime)]
    ELSE NewConcreteCheckpoint(json_data.contents, datetime_from_milis(json_data.mtime))

\* "Establish pointers in memory": the raw checkpoints in ascending mtime,
\* each alias bound to the checkpoint registered under its prevMtime.
RECURSIVE Establish(_, _, _)
Establish(raw_checkpoints, concrete_checkpoints, last_checkpoint) ==
    IF raw_checkpoints = {}
    THEN [error |-> "", last_checkpoint |-> last_checkpoint]
    ELSE LET raw == CHOOSE r \in raw_checkpoints : \A q \in raw_checkpoints : r.mtime <= q.mtime
             Register(checkpoint) ==
                 [m \in DOMAIN concrete_checkpoints \cup {raw.mtime} |->
                     IF m = raw.mtime THEN checkpoint ELSE concrete_checkpoints[m]]
         IN  IF raw.type = "new"
             THEN Establish(raw_checkpoints \ {raw}, Register(raw), <<raw>>)
             ELSE IF raw.prevMtime \notin DOMAIN concrete_checkpoints
             THEN [error |-> "AssertionError", last_checkpoint |-> <<>>]
             ELSE LET same_checkpoint ==
                          SameConcreteCheckpoint(concrete_checkpoints[raw.prevMtime], raw.mtime)
                  IN  Establish(raw_checkpoints \ {raw}, Register(same_checkpoint),
                                <<same_checkpoint>>)

\* load_file_history of zip_edits.py.  The RawEdit of types.py has no
\* baseTime: reading raw_edit.baseTime of the first edit is an AttributeError.
load_file_history(file, file_dict) ==
    LET paths == DOMAIN file_dict
        concrete_dir == file \o <<CONCRETE_NAME>>
        edits_dir == file \o <<EDITS_NAME>>
        unknown_type == {f \in ChildrenOf(paths, concrete_dir) :
                            file_dict[f].type \notin {"same", "new"}}
        established ==
            Establish({raw_concrete_checkpoint_from_json(file_dict[f]) :
                           f \in ChildrenOf(paths, concrete_dir)}, <<>>, <<>>)
    IN  IF ~(file = <<>> \/ IsDirectory(paths, file)) \/ ~IsDirectory(paths, concrete_dir)
        THEN Raised("FileNotFoundError")
        ELSE IF ~(ChildrenOf(paths, concrete_dir) \subseteq paths)
        THEN Raised("AssertionError")
        ELSE IF unknown_type # {}
        THEN Raised("ValueError")
        ELSE IF established.error # ""
        THEN Raised(established.error)
        ELSE IF edits_dir \notin ChildrenOf(paths, file)
        THEN Returned(FileChangeHistory(file, <<>>, established.last_checkpoint[1]))
        ELSE IF ~IsDirectory(paths, edits_dir)
        THEN Raised("FileNotFoundError")
        ELSE IF ~(ChildrenOf(paths, edits_dir) \subseteq paths)
        THEN Raised("AssertionError")
        ELSE Raised("AttributeError")

\* What load_workspace_history can end with: the error of get_important_paths,
\* the error of a file (the files are taken in the order of a set), or the
\* dict of the histories.
load_workspace_history(zip_contents) ==
    LET important_paths == get_important_paths(zip_contents)
        histories == [file \in important_paths.value |-> load_file_history(file, zip_contents)]
        failed == {file \in DOMAIN histories : histories[file].error # ""}
    IN  IF important_paths.error # ""
        THEN {important_paths}
        ELSE IF failed # {}
        THEN {histories[file] : file \in failed}
        ELSE {Returned([file \in DOMAIN histories |-> histories[file].value])}

(***************************************************************************)
(* edits.py: load_workspace_history on the .changes directory of a         *)
(* workspace.  A directory is its sub-directories and its files, a file a  *)
(* path and the JSON value it holds.  A record is stored under the name of *)
(* its timestamp in milliseconds, as write_concrete_checkpoints and        *)
(* write_edits name it.                                                    *)
(***************************************************************************)
MaxMs == 2

LeanA == <<"A.lean">>
LeanB == <<"d", "B.lean">>
Notes == <<"notes.txt">>

\* The names of the model with the suffix .lean, and lean-toolchain.
EssentialNames == {"A.lean", "B.lean", "lean-toolchain"}
is_essential_file(p) == p[Len(p)] \in EssentialNames

get_essential_files(workspace) ==
    {d \in workspace.dirs : d # <<>> /\ is_essential_file(d)}

\* loc.iterdir(): the files of a directory.
IterDir(workspace, loc) == {f \in DOMAIN workspace.files : Parent(f) = loc}

\* The order in which iterdir yields the entries of a directory is the
\* file system's: ascending or descending by name here, the name being the
\* timestamp the record holds in its field `key`.
RECURSIVE ReadOrder(_, _, _)
ReadOrder(records, key, descending) ==
    IF records = {}
    THEN <<>>
    ELSE LET first == CHOOSE r \in records :
                          \A q \in records :
                              IF descending THEN q[key] <= r[key] ELSE r[key] <= q[key]
         IN  <<first>> \o ReadOrder(records \ {first}, key, descending)

\* list.sort(key=lambda x: x.<key>): stable, ascending.
RECURSIVE InsertByKey(_, _, _)
InsertByKey(sorted, x, key) ==
    IF sorted = <<>>
    THEN <<x>>
    ELSE IF sorted[Len(sorted)][key] <= x[key]
    THEN Append(sorted, x)
    ELSE Append(InsertByKey(SubSeq(sorted, 1, Len(sorted) - 1), x, key), sorted[Len(sorted)])

RECURSIVE SortByKey(_, _)
SortByKey(list, key) ==
    IF list = <<>>
    THEN <<>>
    ELSE InsertByKey(SortByKey(SubSeq(list, 1, Len(list) - 1), key), list[Len(list)], key)

\* The checkpoints left in the order they were read.
sort_raw_checkpoints_unsorted(raw_checkpoints) == raw_checkpoints

\* raw_checkpoints.sort(key=lambda x: x.mtime)
sort_raw_checkpoints(raw_checkpoints) == SortByKey(raw_checkpoints, "mtime")

\* The edits left in the order they were read.
sort_edits_unsorted(edits) == edits

\* edits.sort(key=lambda x: x.time)
sort_edits(edits) == SortByKey(edits, "time")

Register(concrete_checkpoints, mtime, checkpoint) ==
    [m \in DOMAIN concrete_checkpoints \cup {mtime} |->
        IF m = mtime THEN checkpoint ELSE concrete_checkpoints[m]]

\* "Establish pointers in memory", passing over an alias whose prevMtime is
\* not registered instead of failing.
RECURSIVE establish_pointers_skipping(_, _, _, _)
establish_pointers_skipping(raw_checkpoints, i, concrete_checkpoints, last_checkpoint) ==
    IF i > Len(raw_checkpoints)
    THEN [error |-> "", concrete_checkpoints |-> concrete_checkpoints,
          last_checkpoint |-> last_checkpoint]
    ELSE LET raw_checkpoint == raw_checkpoints[i]
         IN  IF raw_checkpoint.type = "new"
             THEN establish_pointers_skipping(raw_checkpoints, i + 1,
                      Register(concrete_checkpoints, raw_checkpoint.mtime, raw_checkpoint),
                      <<raw_checkpoint>>)
             ELSE IF raw_checkpoint.prevMtime \notin DOMAIN concrete_checkpoints
             THEN establish_pointers_skipping(raw_checkpoints, i + 1,
                      concrete_checkpoints, last_checkpoint)
             ELSE LET same_checkpoint ==
                          SameConcreteCheckpoint(concrete_checkpoints[raw_checkpoint.prevMtime],
                                                 raw_checkpoint.mtime)
                  IN  establish_pointers_skipping(raw_checkpoints, i + 1,
                          Register(concrete_checkpoints, raw_checkpoint.mtime, same_checkpoint),
                          <<same_checkpoint>>)

\* "Establish pointers in memory": the loop over the sorted raw checkpoints,
\* from the i-th on.
RECURSIVE establish_pointers(_, _, _, _)
establish_pointers(raw_checkpoints, i, concrete_checkpoints, last_checkpoint) ==
    IF i > Len(raw_checkpoints)
    THEN [error |-> "", concrete_checkpoints |-> concrete_checkpoints,
          last_checkpoint |-> last_checkpoint]
    ELSE LET raw_checkpoint == raw_checkpoints[i]
         IN  IF raw_checkpoint.type = "new"
             THEN establish_pointers(raw_checkpoints, i + 1,
                      Register(concrete_checkpoints, raw_checkpoint.mtime, raw_checkpoint),
                      <<raw_checkpoint>>)
             ELSE IF raw_checkpoint.prevMtime \notin DOMAIN concrete_checkpoints
             THEN [error |-> "AssertionError", concrete_checkpoints |-> <<>>,
                   last_checkpoint |-> <<>>]
             ELSE LET same_checkpoint ==
                          SameConcreteCheckpoint(concrete_checkpoints[raw_checkpoint.prevMtime],
                                                 raw_checkpoint.mtime)
                  IN  establish_pointers(raw_checkpoints, i + 1,
                          Register(concrete_checkpoints, raw_checkpoint.mtime, same_checkpoint),
                          <<same_checkpoint>>)

\* RawEdit.from_ts_dict
raw_edit_from_ts_dict(obj) ==
    [file |-> obj.file, time |-> datetime_from_milis(obj.time),
     baseTime |-> datetime_from_milis(obj.baseTime), changes |-> obj.changes]

\* load_file_history of edits.py.  concrete_checkpoints is returned with the
\* history: it is the checkpoint store the history was built on.
load_file_history_from_dir(file, workspace, descending_checkpoints, descending_edits) ==
    LET concrete_loc == file \o <<CONCRETE_NAME>>
        edits_loc == file \o <<EDITS_NAME>>
        Failed(error) == [error |-> error, value |-> <<>>, concrete_checkpoints |-> <<>>]
        checkpoint_data == {workspace.files[f] : f \in IterDir(workspace, concrete_loc)}
        raw_checkpoints ==
            sort_raw_checkpoints(
                ReadOrder({raw_concrete_checkpoint_from_json(data) : data \in checkpoint_data},
                          "mtime", descending_checkpoints))
        established == establish_pointers(raw_checkpoints, 1, <<>>, <<>>)
        concrete_checkpoints == established.concrete_checkpoints
        raw_edits ==
            ReadOrder({raw_edit_from_ts_dict(workspace.files[f]) :
                           f \in IterDir(workspace, edits_loc)},
                      "time", descending_edits)
        edits == [i \in 1..Len(raw_edits) |->
                     Edit(raw_edits[i].file, raw_edits[i].time,
                          concrete_checkpoints[raw_edits[i].baseTime], raw_edits[i].changes)]
    IN  IF file \notin workspace.dirs
        THEN Failed("AssertionError")
        ELSE IF concrete_loc \notin workspace.dirs
        THEN Failed("FileNotFoundError")
        ELSE IF \E data \in checkpoint_data : data.type \notin {"same", "new"}
        THEN Failed("ValueError")
        ELSE IF established.error # ""
        THEN Failed(established.error)
        ELSE IF established.last_checkpoint = <<>>
        THEN Failed("AssertionError")
        ELSE IF edits_loc \notin workspace.dirs
        THEN [error |-> "",
              value |-> FileChangeHistory(file, <<>>, established.last_checkpoint[1]),
              concrete_checkpoints |-> concrete_checkpoints]
        ELSE IF \E i \in 1..Len(raw_edits) : raw_edits[i].baseTime \notin DOMAIN concrete_checkpoints
        THEN Failed("KeyError")
        ELSE [error |-> "",
              value |-> FileChangeHistory(file, sort_edits(edits),
                                          established.last_checkpoint[1]),
              concrete_checkpoints |-> concrete_checkpoints]

\* What load_workspace_history of edits.py can end with: the error of an
\* essential file (the files are loaded in the order of the walk), or the
\* dict of the histories.  .changes exists: unpack_changes returns at once.
load_workspace_history_from_dir(workspace, descending_checkpoints, descending_edits) ==
    LET loaded == [file \in get_essential_files(workspace) |->
                      load_file_history_from_dir(file, workspace,
                                                 descending_checkpoints, descending_edits)]
        failed == {file \in DOMAIN loaded : loaded[file].error # ""}
    IN  IF failed # {}
        THEN {[error |-> loaded[file].error, value |-> <<>>, concrete_checkpoints |-> <<>>] :
                 file \in failed}
        ELSE {[error |-> "",
               value |-> [file \in DOMAIN loaded |-> loaded[file].value],
               concrete_checkpoints |->
                   [file \in DOMAIN loaded |-> loaded[file].concrete_checkpoints]]}

(***************************************************************************)
(* The directories loaded: for a file, a checkpoint record or none under   *)
(* each timestamp, an alias naming any timestamp as its prevMtime, and an  *)
(* edit record or none under each later timestamp.                         *)
(***************************************************************************)
BaseTimes == {0, 1}

NewJson(mtime) == [type |-> "new", contents |-> <<"b">>, mtime |-> mtime]
SameJson(prevMtime, mtime) == [type |-> "same", prevMtime |-> prevMtime, mtime |-> mtime]
EditJson(file, time, baseTime) ==
    [file |-> file, time |-> time, baseTime |-> baseTime,
     changes |-> <<ChangeAt(<<"a">>, 0, 0)>>]

CheckpointRecordSets ==
    {{IF kinds[m] = "new" THEN NewJson(m) ELSE SameJson(prevs[m], m) :
          m \in {k \in 0..MaxMs : kinds[k] # "absent"}} :
        kinds \in [0..MaxMs -> {"absent", "new", "same"}],
        prevs \in [0..MaxMs -> 0..MaxMs]}

EditRecordSets(file) ==
    {{EditJson(file, t, bases[t]) : t \in {k \in 1..MaxMs : bases[k] >= 0}} :
        bases \in [1..MaxMs -> {0 - 1} \cup BaseTimes]}

Prefixes(path) == {SubSeq(path, 1, k) : k \in 0..Len(path)}

\* The part of .changes that records one file.
FileDir(file, checkpoints, edits, edits_dir) ==
    LET checkpoint_paths == {file \o <<CONCRETE_NAME, ToString(r.mtime)>> : r \in checkpoints}
        edit_paths == {file \o <<EDITS_NAME, ToString(r.time)>> : r \in edits}
    IN  [dirs |-> Prefixes(file) \cup {file \o <<CONCRETE_NAME>>}
                    \cup (IF edits_dir THEN {file \o <<EDITS_NAME>>} ELSE {}),
         files |-> [p \in checkpoint_paths \cup edit_paths |->
                       IF p \in checkpoint_paths
                       THEN CHOOSE r \in checkpoints :
                                p = file \o <<CONCRETE_NAME, ToString(r.mtime)>>
                       ELSE CHOOSE r \in edits :
                                p = file \o <<EDITS_NAME, ToString(r.time)>>]]

MergeDirs(a, b) == [dirs |-> a.dirs \cup b.dirs, files |-> Merge(a.files, b.files)]

\* One file with checkpoints and edits, or a file with checkpoints and
\* another directory: a file with edits, a file with a dangling alias, or a
\* directory that is no essential file.
WorkspaceDirs ==
    {FileDir(LeanA, c, e, TRUE) : c \in CheckpointRecordSets, e \in EditRecordSets(LeanA)}
    \cup {FileDir(LeanA, c, {}, FALSE) : c \in CheckpointRecordSets}
    \cup {MergeDirs(FileDir(LeanA, c, {}, TRUE), other) :
            c \in CheckpointRecordSets,
            other \in {FileDir(LeanB, {NewJson(0)}, {EditJson(LeanB, 1, 0)}, TRUE),
                       FileDir(LeanB, {SameJson(1, 0), NewJson(1)}, {}, TRUE),
                       FileDir(Notes, {SameJson(0, 0)}, {}, TRUE)}}

InitLoad ==
    /\ archive \in WorkspaceDirs
    /\ op = "dir"
    /\ workspace_history = <<>>
    /\ args = <<>>
    /\ result = Returned(<<>>)
    /\ trace = <<>>
    /\ project = <<>>
    /\ metadata = <<>>

\* trace: the checkpoint store of each file loaded.
LoadWorkspaceHistoryFromDir ==
    /\ op = "dir"
    /\ \E descending_checkpoints \in BOOLEAN, descending_edits \in BOOLEAN :
       \E outcome \in load_workspace_history_from_dir(archive, descending_checkpoints,
                                                      descending_edits) :
        /\ op' = "load_workspace_history_from_dir"
        /\ args' = [descending_checkpoints |-> descending_checkpoints,
                    descending_edits |-> descending_edits]
        /\ result' = [error |-> outcome.error, value |-> outcome.value]
        /\ workspace_history' = outcome.value
        /\ trace' = outcome.concrete_checkpoints
    /\ UNCHANGED <<project, metadata, archive>>

NextLoad ==
    \/ LoadWorkspaceHistoryFromDir
    \/ GetVersionAtEdit

SpecLoad == InitLoad /\ [][NextLoad]_vars

CheckpointData(file) ==
    {archive.files[f] : f \in IterDir(archive, file \o <<CONCRETE_NAME>>)}
EditData(file) ==
    {archive.files[f] : f \in IterDir(archive, file \o <<EDITS_NAME>>)}

\* An alias record of the file names a prevMtime under which no record of an
\* earlier mtime is stored.
Dangling(file) ==
    \E r \in CheckpointData(file) :
        /\ r.type = "same"
        /\ ~\E q \in CheckpointData(file) : q.mtime = r.prevMtime /\ q.mtime < r.mtime

Loaded == op = "load_workspace_history_from_dir" /\ result.error = ""

\* C13: an alias whose prevMtime is not registered when its turn comes, in
\* ascending order of mtime, fails the build of its file with the assertion,
\* and the load of the workspace with it: no history of any file is returned.
C13_DanglingAliasAbortsLoad ==
    (op = "load_workspace_history_from_dir"
     /\ \E file \in get_essential_files(archive) : Dangling(file)) =>
        /\ result.error # ""
        /\ result.value = <<>>
        /\ workspace_history = <<>>
        /\ trace = <<>>
        /\ get_essential_files(archive) = {LeanA} => result.error = "AssertionError"

\* A file whose alias names a later checkpoint, read after that checkpoint,
\* beside a file that loads.
C13_Witness ==
    /\ op = "load_workspace_history_from_dir"
    /\ LeanB \in get_essential_files(archive)
    /\ Dangling(LeanB)
    /\ ~Dangling(LeanA)
    /\ CheckpointData(LeanA) # {}
    /\ args.descending_checkpoints
    /\ result.error = "AssertionError"

\* The longest suffix of a non-empty sequence of edits whose base checkpoints
\* all have the mtime of the base checkpoint of its last edit.
TrailingRunByMtime(edits) ==
    LET n == Len(edits)
        SameMtimeFrom(k) ==
            \A j \in k..n : edits[j].base_change.mtime = edits[n].base_change.mtime
        first == CHOOSE k \in 1..n : SameMtimeFrom(k) /\ \A j \in 1..(k - 1) : ~SameMtimeFrom(j)
    IN  SubSeq(edits, first, n)

C16_EditsSortedAndBound ==
    Loaded =>
        \A file \in DOMAIN workspace_history :
            LET edits_history == workspace_history[file].edits_history
            IN  /\ IsSorted(edits_history)
                /\ Len(edits_history) = Cardinality(EditData(file))
                /\ \A i \in 1..Len(edits_history) :
                       \E r \in EditData(file) :
                           /\ edits_history[i].time = datetime_from_milis(r.time)
                           /\ edits_history[i].base_change
                                  = trace[file][datetime_from_milis(r.baseTime)]
                           /\ edits_history[i].base_change.mtime
                                  = datetime_from_milis(r.baseTime)

\* Two edits on different checkpoints, read the later one first.
C16_Witness ==
    /\ Loaded
    /\ args.descending_edits
    /\ Len(workspace_history[LeanA].edits_history) = 2
    /\ workspace_history[LeanA].edits_history[1].base_change
           # workspace_history[LeanA].edits_history[2].base_change

\* Following prev from a checkpoint, the mtime decreases at each step, each
\* checkpoint met is the one the store holds under its mtime, and the last
\* one is a snapshot.
RECURSIVE DescendsToSnapshot(_, _)
DescendsToSnapshot(store, checkpoint) ==
    /\ checkpoint.mtime \in DOMAIN store
    /\ store[checkpoint.mtime] = checkpoint
    /\ \/ checkpoint.type = "new"
       \/ /\ checkpoint.prev.mtime < checkpoint.mtime
          /\ DescendsToSnapshot(store, checkpoint.prev)

MaxPaths == 3

Root == 1
FileNode(part, children) == [part |-> part, children |-> children]
NodeRef(id) == [kind |-> "FileNode", id |-> id]
PathRef(path) == [kind |-> "Path", path |-> path]
None == [kind |-> "None"]

is_dir(node) == node.kind = "FileNode"

WithChild(tree, id, name, child) ==
    [tree EXCEPT ![id].children =
        [n \in DOMAIN tree[id].children \cup {name} |->
            IF n = name THEN child ELSE tree[id].children[n]]]

\* FileNode.put making a new node for a directory that has one already.
RECURSIVE put_fresh(_, _, _, _)
put_fresh(tree, self, path, full_path) ==
    IF Len(path) = 0
    THEN tree
    ELSE LET first_part == path[1]
         IN  IF Len(path) = 1
             THEN IF first_part \notin DOMAIN tree[self].children
                  THEN WithChild(tree, self, first_part, PathRef(full_path))
                  ELSE tree
             ELSE LET made == WithChild(Append(tree, FileNode(first_part, <<>>)), self,
                                        first_part, NodeRef(Len(tree) + 1))
                  IN  put_fresh(made, Len(tree) + 1, Tail(path), full_path)

RECURSIVE put(_, _, _, _)
put(tree, self, path, full_path) ==
    IF Len(path) = 0
    THEN tree
    ELSE LET first_part == path[1]
             absent == first_part \notin DOMAIN tree[self].children
         IN  IF absent /\ Len(path) = 1
             THEN WithChild(tree, self, first_part, PathRef(full_path))
             ELSE LET made == IF absent
                              THEN WithChild(Append(tree, FileNode(first_part, <<>>)), self,
                                             first_part, NodeRef(Len(tree) + 1))
                              ELSE tree
                      child == made[self].children[first_part]
                  IN  IF is_dir(child)
                      THEN put(made, child.id, Tail(path), full_path)
                      ELSE made

RECURSIVE find(_, _, _)
find(tree, self, path) ==
    IF Len(path) = 0
    THEN NodeRef(self)
    ELSE IF path[1] \in DOMAIN tree[self].children
    THEN LET child == tree[self].children[path[1]]
         IN  IF is_dir(child) THEN find(tree, child.id, Tail(path)) ELSE child
    ELSE None

get_dir(tree, self, path) ==
    LET node == find(tree, self, path)
    IN  IF node = None \/ ~is_dir(node)
        THEN Raised("FileNotFoundError")
        ELSE Returned(node)

iterdir(tree, self) == DOMAIN tree[self].children

RECURSIVE PutAll(_, _, _)
PutAll(tree, paths, i) ==
    IF i > Len(paths) THEN tree ELSE PutAll(put(tree, Root, paths[i], paths[i]), paths, i + 1)

build_file_tree(paths) == PutAll(<<FileNode(".", <<>>)>>, paths, 1)

\* The files of an archive: no file is a directory of another.
ArchivePaths ==
    {<<"a", "b", "c.txt">>, <<"a", "b", "d.txt">>, <<"a", "e", "f.txt">>,
     <<"g", "h.txt">>, <<"i.txt">>}

PathLists == UNION {[1..n -> ArchivePaths] : n \in 0..MaxPaths}

InitTree ==
    /\ project \in PathLists
    /\ op = "paths"
    /\ workspace_history = <<>>
    /\ args = <<>>
    /\ result = Returned(<<>>)
    /\ trace = <<>>
    /\ metadata = <<>>
    /\ archive = <<>>

\* trace: the tree built.
BuildFileTree ==
    /\ op = "paths"
    /\ op' = "build_file_tree"
    /\ args' = [paths |-> project]
    /\ trace' = build_file_tree(project)
    /\ result' = Returned(NodeRef(Root))
    /\ UNCHANGED <<workspace_history, project, metadata, archive>>

\* tree.get_dir(path), for the paths of the archive and their directories.
GetDir ==
    /\ op = "build_file_tree"
    /\ \E path \in UNION {Prefixes(q) : q \in ArchivePaths} :
        /\ op' = "get_dir"
        /\ args' = [path |-> path]
        /\ result' = get_dir(trace, Root, path)
    /\ UNCHANGED <<workspace_history, trace, project, metadata, archive>>

NextTree ==
    \/ BuildFileTree
    \/ GetDir

SpecTree == InitTree /\ [][NextTree]_vars

InputPaths == {project[i] : i \in 1..Len(project)}

\* The directories of the input paths, the root among them when there is an
\* input path.
InputDirs == UNION {Prefixes(q) \ {q} : q \in InputPaths}

\* C14: in the tree build_file_tree makes of a list of file paths, in any
\* order, get_dir of every directory of an input path returns a FileNode
\* whose child names are the next components of the input paths under it,
\* a leaf child is the full input path, the node is the same object from
\* whichever ancestor it is looked up, and the tree of the empty list is a
\* root without children.
C14_TreeMirrorsPaths ==
    op = "build_file_tree" =>
        /\ trace[Root].part = "."
        /\ project = <<>> => trace = <<FileNode(".", <<>>)>>
        /\ \A d \in InputDirs :
               LET node == get_dir(trace, Root, d)
                   Under == {q \in InputPaths : Len(q) > Len(d) /\ SubSeq(q, 1, Len(d)) = d}
               IN  /\ node.error = ""
                   /\ iterdir(trace, node.value.id) = {q[Len(d) + 1] : q \in Under}
                   /\ \A name \in iterdir(trace, node.value.id) :
                          LET child == trace[node.value.id].children[name]
                          IN  IF is_dir(child)
                              THEN d \o <<name>> \in InputDirs
                              ELSE child = PathRef(d \o <<name>>) /\ d \o <<name>> \in InputPaths
                   /\ \A k \in 0..Len(d) :
                          LET ancestor == get_dir(trace, Root, SubSeq(d, 1, k))
                          IN  /\ ancestor.error = ""
                              /\ get_dir(trace, ancestor.value.id, SubSeq(d, k + 1, Len(d))) = node

\* The paths of two directories put in an order that is not that of their
\* names: a/b holds both its files.
C14_Witness ==
    /\ op = "build_file_tree"
    /\ project = <<<<"a", "b", "d.txt">>, <<"a", "e", "f.txt">>, <<"a", "b", "c.txt">>>>
    /\ iterdir(trace, get_dir(trace, Root, <<"a", "b">>).value.id) = {"c.txt", "d.txt"}

(***************************************************************************)
(* The files under a root are turned into a linear workspace history,      *)
(* which is queried, or written to an archive and loaded again.            *)
(***************************************************************************)
LinearTexts == UNION {[1..k -> Chars \cup {Newline}] : k \in 0..MaxLen}

InitLinear ==
    /\ project \in [{F1, F2} -> LinearTexts]
    /\ workspace_history = <<>>
    /\ op = "root"
    /\ args = <<>>
    /\ result = Returned(<<>>)
    /\ trace = <<>>
    /\ metadata = <<>>
    /\ archive = <<>>

GetLinearWorkspaceHistory ==
    /\ op = "root"
    /\ op' = "get_linear_workspace_history"
    /\ args' = [root |-> project]
    /\ workspace_history' = get_linear_workspace_history(project).files
    /\ metadata' = get_linear_workspace_history(project).metadata
    /\ result' = Returned(get_linear_workspace_history(project))
    /\ UNCHANGED <<trace, project, archive>>

WriteTsWorkspaceHistory ==
    /\ op = "get_linear_workspace_history"
    /\ op' = "write_ts_workspace_history"
    /\ args' = [metadata |-> metadata, files |-> workspace_history]
    /\ archive' = write_ts_workspace_history(metadata, workspace_history)
    /\ result' = Returned(<<>>)
    /\ UNCHANGED <<workspace_history, trace, project, metadata>>

LoadWorkspaceHistory ==
    /\ op = "write_ts_workspace_history"
    /\ op' = "load_workspace_history"
    /\ args' = [changes_zip |-> archive]
    /\ \E outcome \in load_workspace_history(archive) : result' = outcome
    /\ UNCHANGED <<workspace_history, trace, project, metadata, archive>>

\* C2: for the linear history of a string S, the text get_version_at_edit
\* returns for the file at index i is S[0:i+1], for every i in [0, len(S)).
C2_PrefixLaw ==
    (Called("get_version_at_edit") /\ args.file \in DOMAIN project /\ ValidIndex) =>
        result.value[args.file] = SubSeq(project[args.file], 1, args.edit_idx + 1)

\* The whole of a two-line text is returned at its last edit.
C2_Witness ==
    /\ Called("get_version_at_edit")
    /\ args.file \in DOMAIN project
    /\ args.edit_idx = 1
    /\ project[args.file][1] = Newline
    /\ result.value[args.file] = project[args.file]

\* C10: writing a workspace history and loading the archive gives the files
\* of the original, those in sub-directories and those without edits
\* included, each with its edits and checkpoints.
C10_RoundTrip ==
    op = "load_workspace_history" =>
        /\ result.error = ""
        /\ DOMAIN result.value = DOMAIN workspace_history
        /\ \A file \in DOMAIN workspace_history : result.value[file] = workspace_history[file]

NextLinear ==
    \/ GetLinearWorkspaceHistory
    \/ GetVersionAtEdit
    \/ WriteTsWorkspaceHistory
    \/ LoadWorkspaceHistory

SpecLinear == InitLinear /\ [][NextLinear]_vars

====
